---- MODULE Spec2Model ----
(***************************************************************************)
(* Config2Page: role-gated user directory (Express + Prisma) with an audit *)
(* trail.  The model follows the Prisma versions of the server code:       *)
(*   server/middleware/auth.ts   authenticate, authorize,                  *)
(*                               checkUserPermissions                      *)
(*   server/routes/users.ts      POST /, GET /, GET /:id, PUT /:id,        *)
(*                               DELETE /:id                               *)
(*   server/routes/auth.ts       init-admin, login, logout                 *)
(*   services/auditService.ts    logUserAction, logUserEdit                *)
(*   prisma schema + migration   users, audit_logs and their foreign keys  *)
(*   client UserManagementPage   canEdit, canDelete                        *)
(***************************************************************************)
EXTENDS Integers, Sequences, FiniteSets, TLC

VARIABLES
    users,        \* table users: id -> row, DOMAIN users = ids of the rows present
    nextUserId,   \* users.id autoincrement sequence
    auditLogs,    \* table audit_logs: id -> row
    nextAuditId,  \* audit_logs.id autoincrement sequence
    now,          \* server clock read by DEFAULT CURRENT_TIMESTAMP
    cookies,      \* cookie jar of each user's browser: the JWT it holds, unexpired
    response,     \* the request being answered and its response; Idle between requests
    call          \* arguments of a direct call of logUserEdit and its progress

vars == <<users, nextUserId, auditLogs, nextAuditId, now, cookies, response, call>>

-----------------------------------------------------------------------------
(* Bounds of the model *)

MaxUserId == 2
MaxAuditId == 2
MaxTime == 1

-----------------------------------------------------------------------------
(* Values *)

None == "undefined"           \* JavaScript undefined / a field absent from a body
Null == "null"                \* SQL NULL
NoId == 0                     \* a user id that is undefined, or NULL in a column
NoUser == [id |-> NoId]       \* findUnique found no row

Roles == {"admin", "moderator", "user"}

FirstNames == {"Ann"}
LastNames == {"Lee"}
ValidEmails == {"a@x.io", "b@x.io"}
Emails == ValidEmails \cup {"nobody"}
StrongPasswords == {"Str0ngPassA"}
Passwords == StrongPasswords \cup {"Str0ngPassB", "weak"}

\* email.includes('@')
IncludesAt(email) == email \in ValidEmails

\* the three facts about a password string that the handlers test
PasswordLength(password) ==
    CASE password = "Str0ngPassA" -> 11
      [] password = "Str0ngPassB" -> 11
      [] password = "weak" -> 4
      [] OTHER -> 0
HasLowerCase(password) == password \in {"Str0ngPassA", "Str0ngPassB", "weak"}
HasUpperCase(password) == password \in {"Str0ngPassA", "Str0ngPassB"}

minLength == 8

\* password.length < minLength || !hasLowerCase || !hasUpperCase
PasswordRejected(password) ==
    \/ PasswordLength(password) < minLength
    \/ ~HasLowerCase(password)
    \/ ~HasUpperCase(password)

\* bcrypt.hash and bcrypt.compare: the hash is not the password, and compare
\* succeeds exactly for the password that was hashed
BcryptHash(password) == <<"bcrypt", password>>
BcryptCompare(password, hash) == hash = BcryptHash(password)

AUDIT_TYPES ==
    {"LOGIN_SUCCESS", "LOGIN_FAILURE", "LOGOUT", "CREATE_USER", "EDIT_USER", "DELETE_USER"}

-----------------------------------------------------------------------------
(* Requests *)

\* cookie of a request: no cookie, a token that jwt.verify rejects, or an issued token
NoToken == [userId |-> 0, role |-> "none"]
BadToken == [userId |-> 0, role |-> "garbage"]
Cookies == {cookies[u] : u \in DOMAIN cookies} \cup {NoToken, BadToken}

UserIds == 1..MaxUserId

\* request bodies: every field is a value or absent
NonRoleFields == {"first_name", "last_name", "email", "password"}
Fields == NonRoleFields \cup {"role"}

FieldValues(f) ==
    CASE f = "first_name" -> FirstNames
      [] f = "last_name" -> LastNames
      [] f = "email" -> Emails
      [] f = "role" -> Roles
      [] f = "password" -> StrongPasswords \cup {"weak"}

EmptyBody == [f \in Fields |-> None]

\* bodies of a create form: complete but for the optional role, or with one
\* field left out or invalid
CompleteBodies ==
    [first_name : FirstNames, last_name : LastNames, email : ValidEmails,
     role : Roles \cup {None}, password : StrongPasswords]
Defects(f) ==
    CASE f = "email" -> {None, "nobody"}
      [] f = "password" -> {None, "weak"}
      [] OTHER -> {None}
CreateBodies ==
    CompleteBodies \cup
    UNION {{[b EXCEPT ![f] = v] : v \in Defects(f)} :
              b \in {c \in CompleteBodies : c.role = None}, f \in NonRoleFields}

\* bodies of an edit form: nothing, one field, or a role and an email
UpdateBodies ==
    {EmptyBody}
    \cup UNION {{[EmptyBody EXCEPT ![f] = v] : v \in FieldValues(f)} : f \in Fields}
    \cup {[EmptyBody EXCEPT !.role = r, !.email = v] : r \in Roles, v \in ValidEmails}

Truthy(v) == v # None

\* rows as the handlers see them: findUnique result with the id
Row(id) == [id |-> id] @@ users[id]
FindUnique(id) == IF id \in DOMAIN users THEN Row(id) ELSE NoUser
FindByEmail(email) ==
    IF \E id \in DOMAIN users : users[id].email = email
    THEN Row(CHOOSE id \in DOMAIN users : users[id].email = email)
    ELSE NoUser

\* users.email is @unique
EmailTaken(email, self) ==
    \E id \in DOMAIN users : id # self /\ users[id].email = email

\* what is kept of a request and its response: req.user as authenticate set it,
\* req.params.id and the role of that row when the request arrived, body.role,
\* and the status and message sent
Response(method, route, reqUser, target, existing, reqRole, status, message) ==
    [method |-> method, route |-> route,
     actorId |-> reqUser.id,
     actorRole |-> IF reqUser.id = 0 THEN "none" ELSE reqUser.role,
     target |-> target,
     targetRole |-> IF existing.id = 0 THEN "none" ELSE existing.role,
     reqRole |-> reqRole,
     status |-> status, message |-> message]

Idle == Response("none", "none", NoUser, 0, NoUser, None, 0, "")

-----------------------------------------------------------------------------
(* middleware/auth.ts *)

\* authenticate: the status it ends the request with, 0 when it calls next()
AuthenticateStatus(cookie) ==
    IF cookie = NoToken THEN 401
    ELSE IF cookie = BadToken THEN 401
    ELSE IF FindUnique(cookie.userId) = NoUser THEN 401
    ELSE 0

AuthenticateMessage(cookie) ==
    IF cookie = NoToken THEN "Authentication required"
    ELSE IF cookie = BadToken THEN "Invalid or expired token"
    ELSE IF FindUnique(cookie.userId) = NoUser THEN "User not found"
    ELSE ""

\* req.user with the role taken from the token's payload
ReqUserFromToken(cookie) ==
    IF AuthenticateStatus(cookie) = 0
    THEN [FindUnique(cookie.userId) EXCEPT !.role = cookie.role]
    ELSE NoUser

\* req.user set by authenticate: the row stored now, not the token's role
ReqUser(cookie) ==
    IF AuthenticateStatus(cookie) = 0 THEN FindUnique(cookie.userId) ELSE NoUser

\* authorize with the test of the role left out
AuthorizeStatusAnyRole(user, allowedRoles) ==
    IF user = NoUser THEN 401 ELSE 0

\* authorize(allowedRoles)
AuthorizeStatus(user, allowedRoles) ==
    IF user = NoUser THEN 401
    ELSE IF user.role \notin allowedRoles THEN 403
    ELSE 0

\* checkUserPermissions with the moderator's DELETE let through unchecked
checkUserPermissionsUnchecked(user, method, targetUserId) ==
    IF user = NoUser THEN <<401, "Authentication required">>
    ELSE IF user.role = "admin" THEN
        IF method = "DELETE" /\ user.id = targetUserId
        THEN <<403, "Admins cannot delete their own account">>
        ELSE <<0, "">>
    ELSE IF user.role = "moderator" /\ method = "DELETE" THEN <<0, "">>
    ELSE IF user.role = "moderator" /\ user.id = targetUserId THEN <<0, "">>
    ELSE IF user.role = "user" THEN
        IF user.id # targetUserId THEN <<403, "Access denied">>
        ELSE IF method = "DELETE" THEN <<403, "Basic users cannot delete accounts">>
        ELSE <<0, "">>
    ELSE <<403, "Access denied">>

\* checkUserPermissions: <<status, message>>, status 0 when it calls next()
checkUserPermissions(user, method, targetUserId) ==
    IF user = NoUser THEN <<401, "Authentication required">>
    ELSE IF user.role = "admin" THEN
        IF method = "DELETE" /\ user.id = targetUserId
        THEN <<403, "Admins cannot delete their own account">>
        ELSE <<0, "">>
    ELSE IF user.role = "moderator" /\ method = "DELETE" THEN
        LET targetUser == FindUnique(targetUserId) IN
        IF targetUser = NoUser THEN <<404, "User not found">>
        ELSE IF targetUser.role # "user"
        THEN <<403, "Moderators can only delete basic users">>
        ELSE <<0, "">>
    ELSE IF user.role = "moderator" /\ user.id = targetUserId THEN <<0, "">>
    ELSE IF user.role = "user" THEN
        IF user.id # targetUserId THEN <<403, "Access denied">>
        ELSE IF method = "DELETE" THEN <<403, "Basic users cannot delete accounts">>
        ELSE <<0, "">>
    ELSE <<403, "Access denied">>

-----------------------------------------------------------------------------
(* client/src/pages/UserManagementPage.tsx *)

canEdit(currentUser, targetUser) ==
    IF currentUser = NoUser THEN FALSE
    ELSE IF currentUser.role = "admin" THEN TRUE
    ELSE IF currentUser.role = "moderator"
    THEN targetUser.role = "user" \/ targetUser.id = currentUser.id
    ELSE targetUser.id = currentUser.id

canDelete(currentUser, targetUser) ==
    IF currentUser = NoUser THEN FALSE
    ELSE IF currentUser.role = "admin" THEN targetUser.id # currentUser.id
    ELSE IF currentUser.role = "moderator" THEN targetUser.role = "user"
    ELSE FALSE

-----------------------------------------------------------------------------
(* prisma: tables users and audit_logs *)

\* prisma.user.create: the row stored (role falls back to @default(user))
NewUserRow(body, role) ==
    [role |-> IF Truthy(role) THEN role ELSE "user",
     first_name |-> body.first_name,
     last_name |-> body.last_name,
     email |-> body.email,
     password |-> BcryptHash(body.password)]

\* prisma.user.create throws: a required column is missing or the email is taken
CreateThrows(body) ==
    \/ ~Truthy(body.first_name)
    \/ ~Truthy(body.last_name)
    \/ EmailTaken(body.email, 0)

\* audit_logs_actor_user_id_fkey ... ON DELETE RESTRICT
DeleteRestricted(id) ==
    \E a \in DOMAIN auditLogs : auditLogs[a].actor_user_id = id

\* audit_logs_target_user_id_fkey ... ON DELETE SET NULL
SetNullTargets(logs, id) ==
    [a \in DOMAIN logs |->
        IF logs[a].target_user_id = id
        THEN [logs[a] EXCEPT !.target_user_id = NoId]
        ELSE logs[a]]

\* DELETE FROM users WHERE id = ...
RemoveUser(id) == [u \in DOMAIN users \ {id} |-> users[u]]

-----------------------------------------------------------------------------
(* routes/users.ts *)

\* POST /api/users with the role test letting moderators through
CreateOutcomeStaff(reqUser, body) ==
    IF reqUser.role \notin {"admin", "moderator"}
    THEN <<403, "Only admin can create users">>
    ELSE IF ~(Truthy(body.email) /\ IncludesAt(body.email))
    THEN <<400, "Invalid email format">>
    ELSE IF ~Truthy(body.password) THEN <<500, "Error creating user">>
    ELSE IF PasswordRejected(body.password) THEN <<400, "Password must be at least 8 characters long and contain both uppercase and lowercase letters">>
    ELSE IF CreateThrows(body) THEN <<500, "Error creating user">>
    ELSE <<201, "User created successfully">>

\* POST /api/users: <<status, message>>
CreateOutcome(reqUser, body) ==
    IF reqUser.role # "admin" THEN <<403, "Only admin can create users">>
    ELSE IF ~(Truthy(body.email) /\ IncludesAt(body.email))
    THEN <<400, "Invalid email format">>
    ELSE IF ~Truthy(body.password) THEN <<500, "Error creating user">>
    ELSE IF PasswordRejected(body.password) THEN <<400, "Password must be at least 8 characters long and contain both uppercase and lowercase letters">>
    ELSE IF CreateThrows(body) THEN <<500, "Error creating user">>
    ELSE <<201, "User created successfully">>

CreateUser(cookie, body) ==
    LET reqUser == ReqUser(cookie)
        out == IF AuthenticateStatus(cookie) # 0
               THEN <<AuthenticateStatus(cookie), AuthenticateMessage(cookie)>>
               ELSE CreateOutcome(reqUser, body)
    IN  /\ out[1] = 201 => nextUserId <= MaxUserId
        /\ IF out[1] = 201
           THEN /\ users' = (nextUserId :> NewUserRow(body, body.role)) @@ users
                /\ nextUserId' = nextUserId + 1
           ELSE UNCHANGED <<users, nextUserId>>
        /\ response' = Response("POST", "/users", reqUser,
                            IF out[1] = 201 THEN nextUserId ELSE 0,
                            NoUser, body.role, out[1], out[2])
        /\ UNCHANGED <<auditLogs, nextAuditId, now, cookies, call>>

\* GET /api/users
GetUsers(cookie) ==
    LET reqUser == ReqUser(cookie)
        out == IF AuthenticateStatus(cookie) # 0
               THEN <<AuthenticateStatus(cookie), AuthenticateMessage(cookie)>>
               ELSE <<200, "">>
    IN  /\ response' = Response("GET", "/users", reqUser, 0, NoUser, None, out[1], out[2])
        /\ UNCHANGED <<users, nextUserId, auditLogs, nextAuditId, now, cookies, call>>

\* GET /api/users/:id with the test on req.user.id left out
GetOneOutcomeByRole(reqUser, id) ==
    IF FindUnique(id) = NoUser THEN <<404, "User not found">>
    ELSE IF reqUser.role = "user" THEN <<403, "Access denied">>
    ELSE <<200, "">>

\* GET /api/users/:id: <<status, message>>
GetOneOutcome(reqUser, id) ==
    IF FindUnique(id) = NoUser THEN <<404, "User not found">>
    ELSE IF reqUser.role = "user" /\ reqUser.id # id THEN <<403, "Access denied">>
    ELSE <<200, "">>

GetUser(cookie, id) ==
    LET reqUser == ReqUser(cookie)
        out == IF AuthenticateStatus(cookie) # 0
               THEN <<AuthenticateStatus(cookie), AuthenticateMessage(cookie)>>
               ELSE GetOneOutcome(reqUser, id)
    IN  /\ response' = Response("GET", "/users/:id", reqUser, id, FindUnique(id), None,
                            out[1], out[2])
        /\ UNCHANGED <<users, nextUserId, auditLogs, nextAuditId, now, cookies, call>>

\* PUT /api/users/:id: may the role of the body go into updates
RoleAccepted(reqUser, existingUser, role) ==
    /\ Truthy(role)
    /\ \/ reqUser.role = "admin"
       \/ reqUser.role = "moderator" /\ existingUser.role = "user"

\* PUT /api/users/:id: the updates object handed to prisma.user.update
Updates(reqUser, existingUser, body) ==
    LET fields ==
            {f \in {"first_name", "last_name", "email", "password"} : Truthy(body[f])}
            \cup (IF RoleAccepted(reqUser, existingUser, body.role) THEN {"role"} ELSE {})
    IN  [f \in fields |-> IF f = "password" THEN BcryptHash(body[f]) ELSE body[f]]

\* prisma.user.update applied to a row
ApplyUpdates(row, updates) ==
    [f \in DOMAIN row |-> IF f \in DOMAIN updates THEN updates[f] ELSE row[f]]

\* PUT /api/users/:id, the handler behind the middleware: <<status, message>>
UpdateOutcome(reqUser, id, body) ==
    IF FindUnique(id) = NoUser THEN <<404, "User not found">>
    ELSE IF Truthy(body.email) /\ ~IncludesAt(body.email)
    THEN <<400, "Invalid email format">>
    ELSE IF Truthy(body.password) /\ PasswordRejected(body.password) THEN <<400, "Password must be at least 8 characters long and contain both uppercase and lowercase letters">>
    ELSE IF Truthy(body.email) /\ EmailTaken(body.email, id)
    THEN <<500, "Error updating user">>
    ELSE <<200, "User updated successfully">>

\* PUT /api/users/:id writing the body's fields before the middleware decides
UpdateUserWriteFirst(cookie, id, body) ==
    LET reqUser == ReqUser(cookie)
        perm == checkUserPermissions(reqUser, "PUT", id)
        existingUser == FindUnique(id)
        out == IF AuthenticateStatus(cookie) # 0
               THEN <<AuthenticateStatus(cookie), AuthenticateMessage(cookie)>>
               ELSE IF perm[1] # 0 THEN perm
               ELSE UpdateOutcome(reqUser, id, body)
    IN  /\ IF existingUser # NoUser /\ out[1] \in {200, 403}
           THEN users' = [users EXCEPT
                    ![id] = ApplyUpdates(@, Updates(reqUser, existingUser, body))]
           ELSE UNCHANGED users
        /\ response' = Response("PUT", "/users/:id", reqUser, id, existingUser, body.role,
                            out[1], out[2])
        /\ UNCHANGED <<nextUserId, auditLogs, nextAuditId, now, cookies, call>>

UpdateUser(cookie, id, body) ==
    LET reqUser == ReqUser(cookie)
        perm == checkUserPermissions(reqUser, "PUT", id)
        existingUser == FindUnique(id)
        out == IF AuthenticateStatus(cookie) # 0
               THEN <<AuthenticateStatus(cookie), AuthenticateMessage(cookie)>>
               ELSE IF perm[1] # 0 THEN perm
               ELSE UpdateOutcome(reqUser, id, body)
    IN  /\ IF out[1] = 200
           THEN users' = [users EXCEPT
                    ![id] = ApplyUpdates(@, Updates(reqUser, existingUser, body))]
           ELSE UNCHANGED users
        /\ response' = Response("PUT", "/users/:id", reqUser, id, existingUser, body.role,
                            out[1], out[2])
        /\ UNCHANGED <<nextUserId, auditLogs, nextAuditId, now, cookies, call>>

\* DELETE /api/users/:id, the handler behind the middleware: <<status, message>>
DeleteOutcome(id) ==
    IF FindUnique(id) = NoUser THEN <<404, "User not found">>
    ELSE IF DeleteRestricted(id) THEN <<500, "Error deleting user">>
    ELSE <<200, "User deleted successfully">>

DeleteUser(cookie, id) ==
    LET reqUser == ReqUser(cookie)
        perm == checkUserPermissions(reqUser, "DELETE", id)
        out == IF AuthenticateStatus(cookie) # 0
               THEN <<AuthenticateStatus(cookie), AuthenticateMessage(cookie)>>
               ELSE IF perm[1] # 0 THEN perm
               ELSE DeleteOutcome(id)
    IN  /\ IF out[1] = 200
           THEN /\ users' = RemoveUser(id)
                /\ auditLogs' = SetNullTargets(auditLogs, id)
           ELSE UNCHANGED <<users, auditLogs>>
        /\ response' = Response("DELETE", "/users/:id", reqUser, id, FindUnique(id), None,
                            out[1], out[2])
        /\ UNCHANGED <<nextUserId, nextAuditId, now, cookies, call>>

-----------------------------------------------------------------------------
(* routes/auth.ts *)

checkFirstUser == Cardinality(DOMAIN users) = 0

\* POST /api/auth/init-admin: <<status, message>>
InitAdminOutcome(body) ==
    IF ~checkFirstUser THEN <<403, "Admin already exists">>
    ELSE IF ~(Truthy(body.email) /\ IncludesAt(body.email))
    THEN <<400, "Invalid email format">>
    ELSE IF ~Truthy(body.password) THEN <<500, "Error creating admin user">>
    ELSE IF PasswordRejected(body.password) THEN <<400, "Password must be at least 8 characters long and contain both uppercase and lowercase letters">>
    ELSE IF CreateThrows(body) THEN <<500, "Error creating admin user">>
    ELSE <<201, "Admin user created successfully">>

\* jwt.sign({ userId, role })
Sign(userId, role) == [userId |-> userId, role |-> role]

InitAdmin(body) ==
    LET out == InitAdminOutcome(body)
    IN  /\ out[1] = 201 => nextUserId <= MaxUserId
        /\ IF out[1] = 201
           THEN /\ users' = (nextUserId :> NewUserRow(body, "admin")) @@ users
                /\ nextUserId' = nextUserId + 1
                /\ cookies' = [cookies EXCEPT ![nextUserId] = Sign(nextUserId, "admin")]
           ELSE UNCHANGED <<users, nextUserId, cookies>>
        /\ response' = Response("POST", "/auth/init-admin", NoUser,
                            IF out[1] = 201 THEN nextUserId ELSE 0,
                            NoUser, None, out[1], out[2])
        /\ UNCHANGED <<auditLogs, nextAuditId, now, call>>

\* POST /api/auth/login: <<status, message>>
LoginOutcome(email, password) ==
    LET user == FindByEmail(email) IN
    IF user = NoUser THEN <<401, "Invalid credentials">>
    ELSE IF ~BcryptCompare(password, user.password) THEN <<401, "Invalid credentials">>
    ELSE <<200, "Login successful">>

Login(email, password) ==
    LET user == FindByEmail(email)
        out == LoginOutcome(email, password)
    IN  /\ IF out[1] = 200
           THEN cookies' = [cookies EXCEPT ![user.id] = Sign(user.id, user.role)]
           ELSE UNCHANGED cookies
        /\ response' = Response("POST", "/auth/login", NoUser, user.id, user, None,
                            out[1], out[2])
        /\ UNCHANGED <<users, nextUserId, auditLogs, nextAuditId, now, call>>

\* POST /api/auth/logout: res.clearCookie('token') in the browser that sent the
\* request; the route has no authenticate middleware
Logout(browser) ==
    /\ cookies' = [cookies EXCEPT ![browser] = NoToken]
    /\ response' = Response("POST", "/auth/logout", NoUser, cookies[browser].userId, NoUser,
                        None, 200, "Logged out successfully")
    /\ UNCHANGED <<users, nextUserId, auditLogs, nextAuditId, now, call>>

-----------------------------------------------------------------------------
(* The server as deployed by index.ts: auth and user routes *)

NoCall == [pc |-> "none"]

Init ==
    /\ users = << >>
    /\ nextUserId = 1
    /\ auditLogs = << >>
    /\ nextAuditId = 1
    /\ now = 0
    /\ cookies = [u \in UserIds |-> NoToken]
    /\ response = Idle
    /\ call = NoCall

\* res.json(...) has gone out: the server is ready for the next request
Send ==
    /\ response # Idle
    /\ response' = Idle
    /\ UNCHANGED <<users, nextUserId, auditLogs, nextAuditId, now, cookies, call>>

\* the server takes up a request when it is not answering another one
Receive(handler) == response = Idle /\ handler

Next ==
    \/ \E body \in CreateBodies : Receive(InitAdmin(body))
    \/ \E email \in Emails, password \in Passwords : Receive(Login(email, password))
    \/ \E browser \in UserIds : Receive(Logout(browser))
    \/ \E cookie \in Cookies, body \in CreateBodies : Receive(CreateUser(cookie, body))
    \/ \E cookie \in Cookies : Receive(GetUsers(cookie))
    \/ \E cookie \in Cookies, id \in UserIds : Receive(GetUser(cookie, id))
    \/ \E cookie \in Cookies, id \in UserIds, body \in UpdateBodies :
            Receive(UpdateUser(cookie, id, body))
    \/ \E cookie \in Cookies, id \in UserIds : Receive(DeleteUser(cookie, id))
    \/ Send

Spec == Init /\ [][Next]_vars

-----------------------------------------------------------------------------
(* services/auditService.ts *)

\* JavaScript values handed to the audit service: strings, undefined, and Date
\* objects, which have an identity (ref) besides the instant they hold
Str(v) == [type |-> "string", v |-> v]
Undefined == [type |-> "undefined"]
DateObject(ref, time) == [type |-> "object", ref |-> ref, time |-> time]

\* a !== b: objects differ unless they are the same object
StrictNotEqual(a, b) ==
    IF a.type = "object" /\ b.type = "object" THEN a.ref # b.ref ELSE a # b

\* Date.prototype.toISOString
IsoString(time) ==
    CASE time = 0 -> "1970-01-01T00:00:00.000Z"
      [] time = 1 -> "1970-01-01T00:00:00.001Z"
      [] time = 2 -> "1970-01-01T00:00:00.002Z"
      [] OTHER -> "1970-01-01T00:00:00.003Z"

\* what a value becomes in the Json column (JSON.stringify)
ToJson(v) == IF v.type = "object" THEN Str(IsoString(v.time)) ELSE v

\* the string a bcrypt hash is as a column value
HashText(hash) ==
    CASE hash = BcryptHash("Str0ngPassA") -> "$2a$10$A"
      [] hash = BcryptHash("Str0ngPassB") -> "$2a$10$B"
      [] OTHER -> "$2a$10$"

\* oldData[key]
Get(data, key) == IF key \in DOMAIN data THEN data[key] ELSE Undefined

\* Object.keys(newData), in insertion order
KeyOrder == <<"first_name", "email", "password", "role", "created_at">>
IsKey(data, i) == KeyOrder[i] \in DOMAIN data

\* logUserEdit: the changes array after the loop over the first n keys
RECURSIVE ChangesUpTo(_, _, _)
ChangesUpTo(oldData, newData, n) ==
    IF n = 0 THEN << >>
    ELSE LET key == KeyOrder[n]
             rest == ChangesUpTo(oldData, newData, n - 1)
         IN  IF IsKey(newData, n) /\ StrictNotEqual(Get(oldData, key), newData[key])
             THEN Append(rest, [field |-> key,
                                oldValue |-> Get(oldData, key),
                                newValue |-> newData[key]])
             ELSE rest

Changes(oldData, newData) == ChangesUpTo(oldData, newData, Len(KeyOrder))

\* { changes } as stored in the Json column
ChangesMetadata(changes) ==
    [kind |-> "changes",
     changes |-> [i \in DOMAIN changes |->
                    [field |-> changes[i].field,
                     oldValue |-> ToJson(changes[i].oldValue),
                     newValue |-> ToJson(changes[i].newValue)]]]

\* metadata || {}
NoMetadata == [kind |-> "undefined"]
EmptyMetadata == [kind |-> "empty"]

\* prisma.auditLog.create throws: a foreign key names no row of users
AuditCreateThrows(actorId, targetId) ==
    \/ actorId \notin DOMAIN users
    \/ targetId # NoId /\ targetId \notin DOMAIN users

\* prisma.auditLog.create: the row stored
AuditRow(actorId, actionType, targetId, metadata, ipAddress) ==
    [id |-> nextAuditId,
     actor_user_id |-> actorId,
     action_type |-> actionType,
     target_user_id |-> targetId,
     metadata |-> IF metadata = NoMetadata THEN EmptyMetadata ELSE metadata,
     ip_address |-> IF ipAddress = None THEN Null ELSE ipAddress,
     created_at |-> now]

\* logUserAction writing its row without drawing a new id from the sequence
logUserActionSameId(actorId, actionType, targetId, metadata, ipAddress) ==
    IF AuditCreateThrows(actorId, targetId)
    THEN UNCHANGED <<auditLogs, nextAuditId>>
    ELSE /\ auditLogs' = (nextAuditId :>
                AuditRow(actorId, actionType, targetId, metadata, ipAddress)) @@ auditLogs
         /\ UNCHANGED nextAuditId

\* logUserAction: the effect on table audit_logs
logUserAction(actorId, actionType, targetId, metadata, ipAddress) ==
    IF AuditCreateThrows(actorId, targetId)
    THEN UNCHANGED <<auditLogs, nextAuditId>>
    ELSE /\ auditLogs' = (nextAuditId :>
                AuditRow(actorId, actionType, targetId, metadata, ipAddress)) @@ auditLogs
         /\ nextAuditId' = nextAuditId + 1

\* logUserEdit: writes an EDIT_USER row when the changes array is not empty
logUserEdit(actorId, targetId, oldData, newData, ipAddress) ==
    LET changes == Changes(oldData, newData)
    IN  IF Len(changes) > 0
        THEN logUserAction(actorId, "EDIT_USER", targetId,
                           ChangesMetadata(changes), ipAddress)
        ELSE UNCHANGED <<auditLogs, nextAuditId>>

\* a caller invokes logUserAction
LogUserAction(actorId, actionType, targetId, metadata, ipAddress) ==
    /\ nextAuditId <= MaxAuditId
    /\ logUserAction(actorId, actionType, targetId, metadata, ipAddress)
    /\ UNCHANGED <<users, nextUserId, now, cookies, response, call>>

\* a caller invokes logUserEdit with the arguments held in call
LogUserEdit ==
    /\ call.pc = "start"
    /\ logUserEdit(call.actorId, call.targetId, call.oldData, call.newData,
                   call.ipAddress)
    /\ call' = [call EXCEPT !.pc = "done"]
    /\ UNCHANGED <<users, nextUserId, now, cookies, response>>

\* the server clock advances
Tick ==
    /\ now < MaxTime
    /\ now' = now + 1
    /\ UNCHANGED <<users, nextUserId, auditLogs, nextAuditId, cookies, response, call>>

-----------------------------------------------------------------------------
(* The audit recorder next to the user routes: rows of audit_logs written by *)
(* logUserAction while users are created and deleted                        *)

SeedBodies ==
    [first_name : {"Ann"}, last_name : {"Lee"}, email : ValidEmails,
     role : Roles, password : {"Str0ngPassA"}]

AuditedTypes == {"LOGIN_SUCCESS", "CREATE_USER"}

NextAudit ==
    \/ \E body \in SeedBodies : Receive(InitAdmin(body))
    \/ \E email \in ValidEmails : Receive(Login(email, "Str0ngPassA"))
    \/ \E cookie \in Cookies, body \in SeedBodies : Receive(CreateUser(cookie, body))
    \/ \E cookie \in Cookies, id \in UserIds : Receive(DeleteUser(cookie, id))
    \/ \E actorId \in UserIds, actionType \in AuditedTypes,
          targetId \in UserIds \cup {NoId} :
            LogUserAction(actorId, actionType, targetId, NoMetadata, None)
    \/ Tick
    \/ Send

SpecAudit == Init /\ [][NextAudit]_vars

-----------------------------------------------------------------------------
(* logUserEdit applied to one pair of images *)

\* a directory the user routes reach: an admin and a basic user
SeedUsers ==
    (1 :> [role |-> "admin", first_name |-> "Ann", last_name |-> "Lee",
           email |-> "a@x.io", password |-> BcryptHash("Str0ngPassA")])
    @@ (2 :> [role |-> "user", first_name |-> "Bea", last_name |-> "Lee",
              email |-> "b@x.io", password |-> BcryptHash("Str0ngPassA")])

\* Date objects: two that hold the same instant, and a later one
Dates == {DateObject(1, 0), DateObject(2, 0), DateObject(3, 1)}

KeyValues(key) ==
    CASE key = "first_name" -> {Str("Ann"), Str("Bea")}
      [] key = "email" -> {Str("a@x.io"), Str("b@x.io")}
      [] key = "password" -> {Str(HashText(BcryptHash("Str0ngPassA")))}
      [] key = "role" -> {Str("user"), Str("admin")}
      [] key = "created_at" -> Dates

Keys == {KeyOrder[i] : i \in DOMAIN KeyOrder}

\* images of a principal: every key, or all but the first or the last one
Images ==
    UNION {{d \in [ks -> UNION {KeyValues(k) : k \in ks}] :
                \A k \in ks : d[k] \in KeyValues(k)} :
              ks \in {Keys, Keys \ {"first_name"}, Keys \ {"created_at"}}}

InitEdit ==
    /\ users = SeedUsers
    /\ nextUserId = 3
    /\ auditLogs = << >>
    /\ nextAuditId = 1
    /\ now \in 0..1
    /\ cookies = [u \in UserIds |-> NoToken]
    /\ response = Idle
    /\ call \in [pc : {"start"}, actorId : {1}, targetId : {2},
                 oldData : Images, newData : Images,
                 ipAddress : {None, "10.0.0.1"}]

NextEdit == LogUserEdit

SpecEdit == InitEdit /\ [][NextEdit]_vars

-----------------------------------------------------------------------------
(* routes/audit.ts: GET /logs behind authenticate and authorize(['admin']) *)

MaxLogs == 3

\* new Date(string) for the ISO strings a client sends
ParseDate(str) ==
    CASE str = "1970-01-01T00:00:00.000Z" -> 0
      [] str = "1970-01-01T00:00:00.001Z" -> 1
      [] str = "1970-01-01T00:00:00.002Z" -> 2
      [] OTHER -> 3

\* parseInt(string) for the numerals a client sends
ParseInt(str) ==
    CASE str = "0" -> 0
      [] str = "1" -> 1
      [] str = "2" -> 2
      [] str = "3" -> 3
      [] OTHER -> 20

\* req.query: every parameter is a string or absent
QueryTimes == {None} \cup {IsoString(t) : t \in 0..MaxTime}
Queries ==
    [from : QueryTimes, to : QueryTimes, action_type : {None, "CREATE_USER"},
     page : {None, "0", "2"}, limit : {None, "1", "2"}]
\* req.query of a request the middleware ended before the handler read it
Unread == [from |-> "unread", to |-> "unread", action_type |-> "unread",
           page |-> "unread", limit |-> "unread"]

\* const { from, to, action_type, page = '1', limit = '20' } = req.query
PageOf(query) == ParseInt(IF query.page = None THEN "1" ELSE query.page)
LimitOf(query) == ParseInt(IF query.limit = None THEN "20" ELSE query.limit)

\* the filters object with the second bound forgotten when both are sent
FiltersFirstBound(query) ==
    [k \in {k \in {"action_type", "gte", "lte"} :
                \/ k = "action_type" /\ Truthy(query.action_type)
                \/ k = "gte" /\ Truthy(query.from)
                \/ k = "lte" /\ Truthy(query.to) /\ ~Truthy(query.from)} |->
        CASE k = "action_type" -> query.action_type
          [] k = "gte" -> ParseDate(query.from)
          [] k = "lte" -> ParseDate(query.to)]

\* the filters object built from the query: a key for each parameter sent
Filters(query) ==
    [k \in {k \in {"action_type", "gte", "lte"} :
                \/ k = "action_type" /\ Truthy(query.action_type)
                \/ k = "gte" /\ Truthy(query.from)
                \/ k = "lte" /\ Truthy(query.to)} |->
        CASE k = "action_type" -> query.action_type
          [] k = "gte" -> ParseDate(query.from)
          [] k = "lte" -> ParseDate(query.to)]

\* prisma where: every condition of the filters object holds for the row
Where(row, filters) ==
    /\ "action_type" \in DOMAIN filters => row.action_type = filters["action_type"]
    /\ "gte" \in DOMAIN filters => row.created_at >= filters["gte"]
    /\ "lte" \in DOMAIN filters => row.created_at <= filters["lte"]

\* ids of the rows prisma.auditLog.count counts
Matching(filters) == {id \in DOMAIN auditLogs : Where(auditLogs[id], filters)}

\* orderBy created_at desc: the orders the database may return the rows in;
\* rows with equal created_at come in any order
RECURSIVE OrderBy(_)
OrderBy(ids) ==
    IF ids = {} THEN {<< >>}
    ELSE UNION {{<<first>> \o rest : rest \in OrderBy(ids \ {first})} :
                  first \in {i \in ids : \A j \in ids :
                                auditLogs[i].created_at >= auditLogs[j].created_at}}

\* OFFSET n and LIMIT n of the database
Offset(s, n) == [i \in 1..(IF Len(s) > n THEN Len(s) - n ELSE 0) |-> s[i + n]]
Limit(s, n) == [i \in 1..(IF Len(s) < n THEN Len(s) ELSE n) |-> s[i]]

\* skip counted as if pages started at 0
skipFromZero(pageNum, limitNum) == pageNum * limitNum

\* skip: (pageNum - 1) * limitNum
skip(pageNum, limitNum) == (pageNum - 1) * limitNum

\* Math.ceil(total / limitNum) for limitNum > 0
MathCeil(total, limitNum) ==
    IF total % limitNum = 0 THEN total \div limitNum ELSE (total \div limitNum) + 1

\* prisma rejects a negative skip: findMany throws
FindManyThrows(pageNum, limitNum) == skip(pageNum, limitNum) < 0

NoPagination == [total |-> 0, page |-> 0, limit |-> 0, pages |-> 0]

AuditResponse(reqUser, query, status, message, logs, pagination) ==
    Response("GET", "/audit/logs", reqUser, 0, NoUser, None, status, message)
    @@ [query |-> query, logs |-> logs, pagination |-> pagination]

\* GET /api/audit/logs
GetLogs(cookie, query) ==
    LET reqUser == ReqUser(cookie)
        pageNum == PageOf(query)
        limitNum == LimitOf(query)
        filters == Filters(query)
        total == Cardinality(Matching(filters))
    IN  /\ IF AuthenticateStatus(cookie) # 0
           THEN response' = AuditResponse(NoUser, Unread, AuthenticateStatus(cookie),
                                AuthenticateMessage(cookie), << >>, NoPagination)
           ELSE IF AuthorizeStatus(reqUser, {"admin"}) # 0
           THEN response' = AuditResponse(reqUser, Unread,
                                AuthorizeStatus(reqUser, {"admin"}),
                                IF AuthorizeStatus(reqUser, {"admin"}) = 401
                                THEN "Authentication required" ELSE "Access denied",
                                << >>, NoPagination)
           ELSE IF FindManyThrows(pageNum, limitNum)
           THEN response' = AuditResponse(reqUser, query, 500,
                                "Error fetching audit logs", << >>, NoPagination)
           ELSE \E ordered \in OrderBy(Matching(filters)) :
                  LET ids == Limit(Offset(ordered, skip(pageNum, limitNum)), limitNum)
                  IN  response' = AuditResponse(reqUser, query, 200, "",
                          [i \in DOMAIN ids |-> auditLogs[ids[i]]],
                          [total |-> total, page |-> pageNum, limit |-> limitNum,
                           pages |-> MathCeil(total, limitNum)])
        /\ UNCHANGED <<users, nextUserId, auditLogs, nextAuditId, now, cookies, call>>

\* { user_details: { email, role } }
UserDetails == [kind |-> "details", email |-> "b@x.io", role |-> "user"]

\* calls of logUserAction: a login of principal 1, and principal 1 creating 2
RecordCalls ==
    {[actorId |-> 1, actionType |-> "LOGIN_SUCCESS", targetId |-> NoId,
      metadata |-> NoMetadata],
     [actorId |-> 1, actionType |-> "CREATE_USER", targetId |-> 2,
      metadata |-> UserDetails]}

\* a caller invokes logUserAction; call keeps the arguments of the last call
Record(c) ==
    /\ nextAuditId <= MaxLogs
    /\ logUserAction(c.actorId, c.actionType, c.targetId, c.metadata, None)
    /\ call' = [pc |-> "recorded", id |-> nextAuditId] @@ c
    /\ UNCHANGED <<users, nextUserId, now, cookies, response>>

\* the directory with its two principals logged in; the second one is a
\* basic user or a moderator
InitQuery ==
    /\ \E role \in {"user", "moderator"} :
          users = [SeedUsers EXCEPT ![2].role = role]
    /\ nextUserId = 3
    /\ auditLogs = << >>
    /\ nextAuditId = 1
    /\ now = 0
    /\ cookies = [u \in UserIds |->
                    IF u \in DOMAIN SeedUsers THEN Sign(u, users[u].role) ELSE NoToken]
    /\ response = Idle
    /\ call = NoCall

\* the queries sent with a cookie: the middleware ends a request of anyone but
\* an admin without reading req.query, so one query stands for all of them
QueriesWith(cookie) ==
    IF AuthorizeStatus(ReqUser(cookie), {"admin"}) = 0
    THEN Queries
    ELSE {[from |-> None, to |-> None, action_type |-> None,
           page |-> None, limit |-> None]}

\* the recorder and the clock move between two requests
NextQuery ==
    \/ \E c \in RecordCalls : Receive(Record(c))
    \/ Receive(Tick)
    \/ \E cookie \in Cookies : \E query \in QueriesWith(cookie) :
            Receive(GetLogs(cookie, query))
    \/ Send

SpecQuery == InitQuery /\ [][NextQuery]_vars

-----------------------------------------------------------------------------
(* memory-bank/03-user-management.md: POST /api/users as documented, with   *)
(* the CREATE_USER row written by logUserAction inside the handler's try     *)

\* { user_details: { email: newUser.email, role: newUser.role } }
user_details(newUser) ==
    [kind |-> "details", email |-> newUser.email, role |-> newUser.role]

\* <<status, message>>; rejects: prisma.auditLog.create rejects (the await
\* throws into the catch block of the handler)
CreateLoggedOutcome(reqUser, body, rejects) ==
    IF CreateOutcome(reqUser, body)[1] = 201 /\ rejects
    THEN <<500, "Error creating user">>
    ELSE CreateOutcome(reqUser, body)

CreateUserLogged(cookie, body, rejects) ==
    LET reqUser == ReqUser(cookie)
        authenticated == AuthenticateStatus(cookie) = 0
        created == authenticated /\ CreateOutcome(reqUser, body)[1] = 201
        out == IF ~authenticated
               THEN <<AuthenticateStatus(cookie), AuthenticateMessage(cookie)>>
               ELSE CreateLoggedOutcome(reqUser, body, rejects)
        newUser == NewUserRow(body, body.role)
    IN  /\ created => nextUserId <= MaxUserId /\ nextAuditId <= MaxLogs
        /\ IF created
           THEN /\ users' = (nextUserId :> newUser) @@ users
                /\ nextUserId' = nextUserId + 1
           ELSE UNCHANGED <<users, nextUserId>>
        /\ IF created /\ ~rejects
           THEN /\ auditLogs' = (nextAuditId :>
                        AuditRow(reqUser.id, "CREATE_USER", nextUserId,
                                 user_details(newUser), None)) @@ auditLogs
                /\ nextAuditId' = nextAuditId + 1
           ELSE UNCHANGED <<auditLogs, nextAuditId>>
        /\ response' = Response("POST", "/users", reqUser,
                            IF created THEN nextUserId ELSE 0,
                            NoUser, body.role, out[1], out[2])
        /\ call' = [pc |-> "create", created |-> created,
                    rejected |-> created /\ rejects]
        /\ UNCHANGED <<now, cookies>>

NextLogged ==
    \/ \E body \in SeedBodies : Receive(InitAdmin(body))
    \/ \E email \in ValidEmails : Receive(Login(email, "Str0ngPassA"))
    \/ \E cookie \in Cookies, body \in SeedBodies, rejects \in BOOLEAN :
            Receive(CreateUserLogged(cookie, body, rejects))
    \/ \E cookie \in Cookies, id \in UserIds : Receive(DeleteUser(cookie, id))
    \/ Receive(Tick)
    \/ Send

SpecLogged == Init /\ [][NextLogged]_vars

-----------------------------------------------------------------------------
(* Requests in flight together: each handler runs up to its next await on   *)
(* the database, and the steps of two requests interleave.  call holds, for *)
(* each request, the handler's position and its local variables             *)

Requests == {1, 2}

IdleRequest == [pc |-> "idle"]

\* the request answers: res.status(status).json({ message })
Answered(r, status, message) ==
    [call EXCEPT ![r] = [pc |-> "done", status |-> status, message |-> message]]

\* the response has gone out and the connection takes the next request
Sent(r) ==
    /\ call[r].pc = "done"
    /\ call' = [call EXCEPT ![r] = IdleRequest]
    /\ UNCHANGED <<users, nextUserId, auditLogs, nextAuditId, now, cookies, response>>

-----------------------------------------------------------------------------
(* routes/auth.ts: POST /init-admin, await by await *)

InitBodies == {b \in CreateBodies : b.role = None}

InitAdminArrive(r, body) ==
    /\ call[r].pc = "idle"
    /\ call' = [call EXCEPT ![r] = [pc |-> "count", body |-> body]]
    /\ UNCHANGED <<users, nextUserId, auditLogs, nextAuditId, now, cookies, response>>

\* what the handler answers between checkFirstUser and prisma.user.create:
\* <<status, message>>, status 0 when it goes on to the create
InitAdminChecks(body) ==
    IF ~checkFirstUser THEN <<403, "Admin already exists">>
    ELSE IF ~(Truthy(body.email) /\ IncludesAt(body.email))
    THEN <<400, "Invalid email format">>
    ELSE IF ~Truthy(body.password) THEN <<500, "Error creating admin user">>
    ELSE IF PasswordRejected(body.password) THEN <<400, "Password must be at least 8 characters long and contain both uppercase and lowercase letters">>
    ELSE <<0, "">>

\* await checkFirstUser(), then the validation of the body
InitAdminCount(r) ==
    LET body == call[r].body
        out == InitAdminChecks(body)
    IN  /\ call[r].pc = "count"
        /\ IF out[1] = 0
           THEN /\ call' = [call EXCEPT ![r] = [pc |-> "create", body |-> body]]
                /\ UNCHANGED response
           ELSE /\ call' = Answered(r, out[1], out[2])
                /\ response' = Response("POST", "/auth/init-admin", NoUser, 0, NoUser,
                                    None, out[1], out[2])
        /\ UNCHANGED <<users, nextUserId, auditLogs, nextAuditId, now, cookies>>

\* await prisma.user.create(...), then the token and the response
InitAdminCreate(r) ==
    LET body == call[r].body
    IN  /\ call[r].pc = "create"
        /\ IF CreateThrows(body)
           THEN /\ call' = Answered(r, 500, "Error creating admin user")
                /\ response' = Response("POST", "/auth/init-admin", NoUser, 0, NoUser,
                                    None, 500, "Error creating admin user")
                /\ UNCHANGED <<users, nextUserId, cookies>>
           ELSE /\ nextUserId <= MaxUserId
                /\ users' = (nextUserId :> NewUserRow(body, "admin")) @@ users
                /\ nextUserId' = nextUserId + 1
                /\ cookies' = [cookies EXCEPT ![nextUserId] = Sign(nextUserId, "admin")]
                /\ call' = Answered(r, 201, "Admin user created successfully")
                /\ response' = Response("POST", "/auth/init-admin", NoUser, nextUserId,
                                    NoUser, None, 201, "Admin user created successfully")
        /\ UNCHANGED <<auditLogs, nextAuditId, now>>

InitSetup ==
    /\ users = << >>
    /\ nextUserId = 1
    /\ auditLogs = << >>
    /\ nextAuditId = 1
    /\ now = 0
    /\ cookies = [u \in UserIds |-> NoToken]
    /\ response = Idle
    /\ call = [r \in Requests |-> IdleRequest]

NextSetup ==
    \/ \E r \in Requests, body \in InitBodies : InitAdminArrive(r, body)
    \/ \E r \in Requests : InitAdminCount(r)
    \/ \E r \in Requests : InitAdminCreate(r)
    \/ \E r \in Requests : Sent(r)

SpecSetup == InitSetup /\ [][NextSetup]_vars

-----------------------------------------------------------------------------
(* routes/users.ts: PUT /:id and DELETE /:id behind authenticate and        *)
(* checkUserPermissions, await by await, two requests in flight              *)

\* a directory with one principal of each role
Staff ==
    (1 :> [role |-> "admin", first_name |-> "Ann", last_name |-> "Lee",
           email |-> "a@x.io", password |-> BcryptHash("Str0ngPassA")])
    @@ (2 :> [role |-> "moderator", first_name |-> "Bea", last_name |-> "Lee",
              email |-> "m@x.io", password |-> BcryptHash("Str0ngPassA")])
    @@ (3 :> [role |-> "user", first_name |-> "Cy", last_name |-> "Lee",
              email |-> "u@x.io", password |-> BcryptHash("Str0ngPassA")])

\* bodies of an edit form that carry nothing or a role
RoleBodies == {EmptyBody} \cup {[EmptyBody EXCEPT !.role = r] : r \in Roles}

Methods == {"PUT", "DELETE"}

\* the route is entered: authenticate is the first middleware
Arrive(r, method, cookie, id, body) ==
    /\ call[r].pc = "idle"
    /\ call' = [call EXCEPT ![r] =
            [pc |-> "authenticate", method |-> method, cookie |-> cookie,
             id |-> id, body |-> body]]
    /\ UNCHANGED <<users, nextUserId, auditLogs, nextAuditId, now, cookies, response>>

\* authenticate: await prisma.user.findUnique({ id: decoded.userId })
Authenticate(r) ==
    LET c == call[r]
        status == AuthenticateStatus(c.cookie)
    IN  /\ c.pc = "authenticate"
        /\ IF status # 0
           THEN /\ call' = Answered(r, status, AuthenticateMessage(c.cookie))
                /\ response' = Response(c.method, "/users/:id", NoUser, c.id,
                                    FindUnique(c.id), c.body.role, status,
                                    AuthenticateMessage(c.cookie))
           ELSE /\ call' = [call EXCEPT ![r] =
                        [pc |-> "permissions", user |-> ReqUser(c.cookie)] @@ c]
                /\ UNCHANGED response
        /\ UNCHANGED <<users, nextUserId, auditLogs, nextAuditId, now, cookies>>

\* checkUserPermissions, with its findUnique of the target for a moderator's DELETE
Permissions(r) ==
    LET c == call[r]
        perm == checkUserPermissions(c.user, c.method, c.id)
    IN  /\ c.pc = "permissions"
        /\ IF perm[1] # 0
           THEN /\ call' = Answered(r, perm[1], perm[2])
                /\ response' = Response(c.method, "/users/:id", c.user, c.id,
                                    FindUnique(c.id), c.body.role, perm[1], perm[2])
           ELSE /\ call' = [call EXCEPT ![r] = [pc |-> "find"] @@ c]
                /\ UNCHANGED response
        /\ UNCHANGED <<users, nextUserId, auditLogs, nextAuditId, now, cookies>>

\* the handler's await prisma.user.findUnique and, for PUT, the updates it builds
Find(r) ==
    LET c == call[r]
        existingUser == FindUnique(c.id)
        out == IF c.method = "PUT" THEN UpdateOutcome(c.user, c.id, c.body)
               ELSE IF existingUser = NoUser THEN <<404, "User not found">>
               ELSE <<200, "">>
    IN  /\ c.pc = "find"
        /\ IF out[1] \in {400, 404}
           THEN /\ call' = Answered(r, out[1], out[2])
                /\ response' = Response(c.method, "/users/:id", c.user, c.id,
                                    existingUser, c.body.role, out[1], out[2])
           ELSE /\ call' = [call EXCEPT ![r] =
                        [pc |-> "write", existingUser |-> existingUser,
                         updates |-> IF c.method = "PUT"
                                     THEN Updates(c.user, existingUser, c.body)
                                     ELSE << >>] @@ c]
                /\ UNCHANGED response
        /\ UNCHANGED <<users, nextUserId, auditLogs, nextAuditId, now, cookies>>

\* await prisma.user.update / prisma.user.delete, which throw when the row is
\* gone or a constraint is violated, then the response
Write(r) ==
    LET c == call[r]
        throws ==
            \/ c.id \notin DOMAIN users
            \/ c.method = "PUT" /\ "email" \in DOMAIN c.updates
                                /\ EmailTaken(c.updates.email, c.id)
            \/ c.method = "DELETE" /\ DeleteRestricted(c.id)
        out == IF throws
               THEN <<500, IF c.method = "PUT" THEN "Error updating user"
                           ELSE "Error deleting user">>
               ELSE <<200, IF c.method = "PUT" THEN "User updated successfully"
                           ELSE "User deleted successfully">>
    IN  /\ c.pc = "write"
        /\ IF throws THEN UNCHANGED <<users, auditLogs>>
           ELSE IF c.method = "PUT"
           THEN /\ users' = [users EXCEPT ![c.id] = ApplyUpdates(@, c.updates)]
                /\ UNCHANGED auditLogs
           ELSE /\ users' = RemoveUser(c.id)
                /\ auditLogs' = SetNullTargets(auditLogs, c.id)
        /\ call' = Answered(r, out[1], out[2])
        /\ response' = Response(c.method, "/users/:id", c.user, c.id, c.existingUser,
                            c.body.role, out[1], out[2])
        /\ UNCHANGED <<nextUserId, nextAuditId, now, cookies>>

InitRace ==
    /\ users = Staff
    /\ nextUserId = 4
    /\ auditLogs = << >>
    /\ nextAuditId = 1
    /\ now = 0
    /\ cookies = [u \in DOMAIN Staff |-> Sign(u, Staff[u].role)]
    /\ response = Idle
    /\ call = [r \in Requests |-> IdleRequest]

NextRace ==
    \/ \E r \in Requests, method \in Methods, cookie \in Cookies,
          id \in DOMAIN Staff, body \in RoleBodies :
            Arrive(r, method, cookie, id, IF method = "PUT" THEN body ELSE EmptyBody)
    \/ \E r \in Requests : Authenticate(r)
    \/ \E r \in Requests : Permissions(r)
    \/ \E r \in Requests : Find(r)
    \/ \E r \in Requests : Write(r)

SpecRace == InitRace /\ [][NextRace]_vars

-----------------------------------------------------------------------------
(* routes/audit.ts: GET /logs await by await (findMany, then count), with   *)
(* logUserAction called by other requests in between                        *)

\* authenticate, authorize and await prisma.auditLog.findMany(...)
LogsFindMany(cookie, query) ==
    LET reqUser == ReqUser(cookie)
        pageNum == PageOf(query)
        limitNum == LimitOf(query)
    IN  /\ call = NoCall
        /\ response = Idle
        /\ IF AuthenticateStatus(cookie) # 0 \/ AuthorizeStatus(reqUser, {"admin"}) # 0
              \/ FindManyThrows(pageNum, limitNum)
           THEN GetLogs(cookie, query)
           ELSE /\ \E ordered \in OrderBy(Matching(Filters(query))) :
                     LET ids == Limit(Offset(ordered, skip(pageNum, limitNum)), limitNum)
                     IN  call' = [pc |-> "count", user |-> reqUser, query |-> query,
                                  logs |-> [i \in DOMAIN ids |-> auditLogs[ids[i]]]]
                /\ UNCHANGED <<users, nextUserId, auditLogs, nextAuditId, now, cookies,
                               response>>

\* await prisma.auditLog.count({ where: filters }), then res.json
LogsCount ==
    LET query == call.query
        total == Cardinality(Matching(Filters(query)))
    IN  /\ call.pc = "count"
        /\ response' = AuditResponse(call.user, query, 200, "", call.logs,
                          [total |-> total, page |-> PageOf(query),
                           limit |-> LimitOf(query),
                           pages |-> MathCeil(total, LimitOf(query))])
        /\ call' = NoCall
        /\ UNCHANGED <<users, nextUserId, auditLogs, nextAuditId, now, cookies>>

NextSnapshot ==
    \/ \E c \in RecordCalls :
          LogUserAction(c.actorId, c.actionType, c.targetId, c.metadata, None)
    \/ Tick
    \/ \E cookie \in Cookies : \E query \in QueriesWith(cookie) :
          LogsFindMany(cookie, query)
    \/ LogsCount
    \/ Send

SpecSnapshot == InitQuery /\ [][NextSnapshot]_vars

-----------------------------------------------------------------------------
(* memory-bank/03-user-management.md: PUT /api/users/:id as documented, with *)
(* logUserEdit(existingUser, updatedUser) after the update, await by await   *)

\* bodies of an edit form: nothing, or one field with a new value
EditBodies ==
    {EmptyBody,
     [EmptyBody EXCEPT !.first_name = "Ann"],
     [EmptyBody EXCEPT !.email = "b@x.io"],
     [EmptyBody EXCEPT !.password = "Str0ngPassB"],
     [EmptyBody EXCEPT !.role = "moderator"]}

\* a row as the JavaScript object a query returns: strings, and a Date object
\* of its own (ref) for created_at
Image(user, ref) ==
    [k \in {"first_name", "email", "password", "role", "created_at"} |->
        CASE k = "created_at" -> DateObject(ref, 0)
          [] k = "password" -> Str(HashText(user[k]))
          [] OTHER -> Str(user[k])]

\* select: { id, first_name, last_name, email, role, created_at, updated_at }
Select(image) == [k \in DOMAIN image \ {"password"} |-> image[k]]

\* await prisma.user.update(...): the row is written; the response waits for
\* the audit write
Update(r) ==
    LET c == call[r]
        throws ==
            \/ c.id \notin DOMAIN users
            \/ "email" \in DOMAIN c.updates /\ EmailTaken(c.updates.email, c.id)
    IN  /\ c.pc = "write"
        /\ IF throws
           THEN /\ call' = Answered(r, 500, "Error updating user")
                /\ response' = Response("PUT", "/users/:id", c.user, c.id,
                                    c.existingUser, c.body.role, 500,
                                    "Error updating user")
                /\ UNCHANGED users
           ELSE /\ users' = [users EXCEPT ![c.id] = ApplyUpdates(@, c.updates)]
                /\ call' = [call EXCEPT ![r] =
                        [pc |-> "log", replaced |-> Row(c.id),
                         updatedUser |-> [id |-> c.id]
                                         @@ ApplyUpdates(users[c.id], c.updates)] @@ c]
                /\ UNCHANGED response
        /\ UNCHANGED <<nextUserId, auditLogs, nextAuditId, now, cookies>>

\* await logUserEdit(req.user.id, parseInt(id), existingUser, updatedUser,
\* req.clientIp), then res.json
LogEdit(r) ==
    LET c == call[r]
    IN  /\ c.pc = "log"
        /\ nextAuditId <= MaxAuditId
        /\ logUserEdit(c.user.id, c.id, Image(c.existingUser, 1),
                       Select(Image(c.updatedUser, 2)), None)
        /\ call' = [call EXCEPT ![r] =
                [pc |-> "done", status |-> 200,
                 message |-> "User updated successfully"] @@ c]
        /\ response' = Response("PUT", "/users/:id", c.user, c.id, c.existingUser,
                            c.body.role, 200, "User updated successfully")
        /\ UNCHANGED <<users, nextUserId, now, cookies>>

NextUpdate ==
    \/ \E r \in Requests, cookie \in Cookies, id \in DOMAIN Staff, body \in EditBodies :
            Arrive(r, "PUT", cookie, id, body)
    \/ \E r \in Requests : Authenticate(r)
    \/ \E r \in Requests : Permissions(r)
    \/ \E r \in Requests : Find(r)
    \/ \E r \in Requests : Update(r)
    \/ \E r \in Requests : LogEdit(r)

SpecUpdate == InitRace /\ [][NextUpdate]_vars

-----------------------------------------------------------------------------
(* Properties *)

\* the request being answered came from an authenticated principal
Authenticated == response.actorId # NoId
\* the row named by req.params.id was there when the request arrived
TargetExisted == response.targetRole # "none"
\* req.user and the target as the client's predicates see them
Actor == [id |-> response.actorId, role |-> response.actorRole]
Target == [id |-> response.target, role |-> response.targetRole]

IsDelete == response.method = "DELETE" /\ response.route = "/users/:id"
IsUpdate == response.method = "PUT" /\ response.route = "/users/:id"
IsViewOne == response.method = "GET" /\ response.route = "/users/:id"
IsCreate == response.method = "POST" /\ response.route = "/users"

\* C1: a DELETE of an existing target by an authenticated actor is carried out
\* exactly when the actor is an admin and the target is another principal, or the
\* actor is a moderator and the target has role user; every other DELETE is
\* denied with 403, and the client's canDelete agrees with the server.
C1_DeleteDecision ==
    (IsDelete /\ Authenticated /\ TargetExisted) =>
        /\ response.status \in {200, 403}
        /\ response.status = 200 <=>
             \/ response.actorRole = "admin" /\ response.target # response.actorId
             \/ response.actorRole = "moderator" /\ response.targetRole = "user"
        /\ response.actorRole = "user" => response.status = 403
        /\ canDelete(Actor, Target) <=> response.status = 200
        /\ response.status = 200 => response.target \notin DOMAIN users

\* C1 witness: a moderator has deleted a basic user
C1_Witness ==
    /\ IsDelete /\ response.status = 200
    /\ response.actorRole = "moderator" /\ response.targetRole = "user"

\* C2: an UPDATE of an existing target by an authenticated actor is denied with
\* 403 exactly when the actor is neither an admin, nor a moderator whose target
\* has role user or is the moderator, nor a user whose target is the user; the
\* client's canEdit agrees with the server.
C2_UpdateDecision ==
    (IsUpdate /\ Authenticated /\ TargetExisted) =>
        /\ response.status # 403 <=>
             \/ response.actorRole = "admin"
             \/ /\ response.actorRole = "moderator"
                /\ response.targetRole = "user" \/ response.target = response.actorId
             \/ response.actorRole = "user" /\ response.target = response.actorId
        /\ canEdit(Actor, Target) <=> response.status # 403

\* the actor of the UPDATE being answered has no right to change the target's role
RoleChangeUnentitled ==
    \/ response.actorRole = "user"
    \/ response.actorRole = "moderator" /\ response.targetRole # "user"

\* C3: an UPDATE that carries a role from an actor not entitled to change the
\* target's role is denied as a whole: it is not answered with success and no
\* field of any principal is modified.
C3_RoleDeniedWhole ==
    [][(IsUpdate /\ Authenticated /\ TargetExisted
            /\ Truthy(response.reqRole) /\ RoleChangeUnentitled)'
        => (response.status # 200)' /\ users' = users]_vars

\* C4: an UPDATE by a non-admin actor that asks for role moderator or admin is
\* denied with "Access denied" and leaves the target's role as it was.
C4_NoEscalationRequest ==
    [][(IsUpdate /\ Authenticated /\ TargetExisted
            /\ response.actorRole # "admin"
            /\ response.reqRole \in {"moderator", "admin"})'
        => /\ (response.status = 403 /\ response.message = "Access denied")'
           /\ users'[response'.target].role = users[response'.target].role]_vars

\* C5: VIEW_ONE of an existing target succeeds for an admin or moderator actor
\* and for a user actor viewing itself, and is denied with 403 "Access denied"
\* for a user actor viewing another principal.
C5_ViewOneDecision ==
    (IsViewOne /\ Authenticated /\ TargetExisted) =>
        /\ response.actorRole \in {"admin", "moderator"} => response.status = 200
        /\ response.actorRole = "user" /\ response.target = response.actorId
             => response.status = 200
        /\ response.actorRole = "user" /\ response.target # response.actorId
             => response.status = 403 /\ response.message = "Access denied"

\* C5 witness: a basic user was refused the details of another principal
C5_Witness ==
    /\ IsViewOne /\ TargetExisted
    /\ response.actorRole = "user" /\ response.target # response.actorId
    /\ response.status = 403

\* C6: a CREATE by a moderator or user actor is denied with 403 "Only admin can
\* create users" whatever the body holds and leaves the principals as they were;
\* principals are only added by a CREATE of an admin actor, with the role asked for.
C6_CreateAdminOnly ==
    [][(IsCreate /\ Authenticated)' =>
        /\ (response.actorRole # "admin")' =>
             /\ (response.status = 403)'
             /\ (response.message = "Only admin can create users")'
             /\ users' = users
        /\ users' # users =>
             /\ (response.actorRole = "admin" /\ response.status = 201)'
             /\ DOMAIN users' = DOMAIN users \cup {response'.target}
             /\ response'.target \notin DOMAIN users
             /\ users'[response'.target].role =
                  IF Truthy(response'.reqRole) THEN response'.reqRole ELSE "user"
             /\ \A u \in DOMAIN users : users'[u] = users[u]]_vars

\* C6 witness: a moderator's CREATE was refused
C6_Witness ==
    /\ IsCreate /\ response.actorRole = "moderator" /\ response.status = 403

\* C7: every row of audit_logs stays as it was written: no step removes a row
\* or changes one of its columns.
C7_AppendOnly ==
    [][\A a \in DOMAIN auditLogs :
          a \in DOMAIN auditLogs' /\ auditLogs'[a] = auditLogs[a]]_vars

\* the rows added to audit_logs by the step
NewAuditRows == {auditLogs'[a] : a \in DOMAIN auditLogs' \ DOMAIN auditLogs}

\* C8: a successful CREATE, a successful UPDATE that changes a field, and a
\* successful DELETE each add exactly one row to audit_logs, of type CREATE_USER,
\* EDIT_USER or DELETE_USER, whose actor is the acting principal and whose target
\* is the principal acted upon.
C8_MutationsAudited ==
    [][((IsCreate \/ IsUpdate \/ IsDelete) /\ response.status \in {200, 201})'
            /\ users' # users
        => \E row \in NewAuditRows :
              /\ NewAuditRows = {row}
              /\ row.action_type =
                   CASE IsCreate' -> "CREATE_USER"
                     [] IsUpdate' -> "EDIT_USER"
                     [] OTHER -> "DELETE_USER"
              /\ row.actor_user_id = response'.actorId
              /\ row.target_user_id = response'.target]_vars

IsLogin == response.method = "POST" /\ response.route = "/auth/login"
IsLogout == response.method = "POST" /\ response.route = "/auth/logout"

\* C9: each login answered with success adds one LOGIN_SUCCESS row, each login
\* answered with "Invalid credentials" adds one LOGIN_FAILURE row, and each
\* logout adds one LOGOUT row whose actor is the user who logged out.
C9_AuthEventsAudited ==
    [][(IsLogin \/ IsLogout)' =>
        \E row \in NewAuditRows :
           /\ NewAuditRows = {row}
           /\ row.action_type =
                CASE IsLogout' -> "LOGOUT"
                  [] IsLogin' /\ response'.status = 200 -> "LOGIN_SUCCESS"
                  [] OTHER -> "LOGIN_FAILURE"
           /\ IsLogout' => row.actor_user_id = response'.target]_vars

\* the two images hold the same keys and, key by key, the same value (two
\* dates are the same value when they hold the same instant)
SameValue(a, b) ==
    IF a.type = "object" /\ b.type = "object" THEN a.time = b.time ELSE a = b
IdenticalImages(oldData, newData) ==
    /\ DOMAIN oldData = DOMAIN newData
    /\ \A k \in DOMAIN newData : SameValue(oldData[k], newData[k])

\* C10: logUserEdit called with a pre-image and a post-image that are identical
\* in every field writes no row to audit_logs.
C10_NoOpNoEntry ==
    (call.pc = "done" /\ IdenticalImages(call.oldData, call.newData))
        => auditLogs = << >>

\* C20: an UPDATE or DELETE of an authenticated actor addressed to an id that
\* names no row of users is answered 404, whatever the actor's role: no actor is
\* answered 403 for a target that does not exist.
C20_NotFoundBeforeDenial ==
    ((IsUpdate \/ IsDelete) /\ Authenticated /\ ~TargetExisted)
        => response.status = 404

\* the changes array of the row logUserEdit wrote, empty when it wrote none
WrittenChanges ==
    IF auditLogs = << >> THEN << >> ELSE auditLogs[1].metadata.changes

\* C11: for every field the pre-image and the post-image both hold, the changes
\* list written by logUserEdit has exactly one element when the two values
\* differ and none when they are equal, and that element carries the pre-image
\* value as oldValue and the post-image value as newValue.
C11_ChangesExact ==
    call.pc = "done" =>
        \A k \in DOMAIN call.oldData \cap DOMAIN call.newData :
            LET hits == {i \in DOMAIN WrittenChanges : WrittenChanges[i].field = k}
            IN  /\ Cardinality(hits) =
                     IF SameValue(call.oldData[k], call.newData[k]) THEN 0 ELSE 1
                /\ \A i \in hits :
                     /\ WrittenChanges[i].oldValue = ToJson(call.oldData[k])
                     /\ WrittenChanges[i].newValue = ToJson(call.newData[k])

IsGetLogs == response.method = "GET" /\ response.route = "/audit/logs"

\* the page number and the page size a query asks for
PageNumber(query) ==
    CASE query.page = None -> 1
      [] query.page = "0" -> 0
      [] query.page = "2" -> 2
      [] OTHER -> 3
PageSize(query) ==
    CASE query.limit = None -> 20
      [] query.limit = "1" -> 1
      [] OTHER -> 2

\* the entry satisfies every filter the query supplies
Selected(row, query) ==
    /\ query.from # None =>
          \E t \in 0..MaxTime : IsoString(t) = query.from /\ row.created_at >= t
    /\ query.to # None =>
          \E t \in 0..MaxTime : IsoString(t) = query.to /\ row.created_at <= t
    /\ query.action_type # None => row.action_type = query.action_type
SelectedIds(query) == {id \in DOMAIN auditLogs : Selected(auditLogs[id], query)}

\* C13: an audit query of an authenticated moderator or user is answered 403
\* and one without a valid session 401, both without any entry; entries are
\* only ever returned to an admin.
C13_LogsAdminOnly ==
    IsGetLogs =>
        /\ response.actorRole \in {"moderator", "user"}
             => response.status = 403 /\ response.logs = << >>
        /\ ~Authenticated => response.status = 401 /\ response.logs = << >>
        /\ response.logs # << >> => response.actorRole = "admin"

\* C13 witness: a moderator or user was refused while the log held entries
C13_Witness ==
    /\ IsGetLogs /\ response.status = 403
    /\ response.actorRole \in {"moderator", "user"}
    /\ auditLogs # << >>

\* C14: the entries of an audit query come in strictly descending created_at
\* order, entries with equal created_at in descending id order.
C14_NewestFirst ==
    (IsGetLogs /\ response.status = 200) =>
        \A i, j \in DOMAIN response.logs :
            i < j =>
                \/ response.logs[i].created_at > response.logs[j].created_at
                \/ /\ response.logs[i].created_at = response.logs[j].created_at
                   /\ response.logs[i].id > response.logs[j].id

\* number of selected entries that come before the entry in every order by
\* descending created_at, and number that may come before it or be it
Newer(row, query) ==
    Cardinality({id \in SelectedIds(query) :
                    auditLogs[id].created_at > row.created_at})
NewerOrSame(row, query) ==
    Cardinality({id \in SelectedIds(query) :
                    auditLogs[id].created_at >= row.created_at})

\* C15: for a page size of at least 1 and a page p from 1 to ceil(total / size),
\* the query returns the number of selected entries as total, ceil(total / size)
\* as pages, and the entries at positions (p-1)*size+1 .. min(p*size, total) of
\* the selected entries in descending created_at order.
C15_Pagination ==
    LET query == response.query
        p == PageNumber(query)
        size == PageSize(query)
        total == Cardinality(SelectedIds(query))
        first == (p - 1) * size + 1
        last == IF p * size < total THEN p * size ELSE total
    IN  (IsGetLogs /\ response.actorRole = "admin" /\ size >= 1
            /\ p >= 1 /\ (p - 1) * size < total) =>
            /\ response.status = 200
            /\ response.pagination.total = total
            /\ (response.pagination.pages - 1) * size < total
            /\ total <= response.pagination.pages * size
            /\ Len(response.logs) = last - first + 1
            /\ \A i, j \in DOMAIN response.logs :
                  i # j => response.logs[i].id # response.logs[j].id
            /\ \A i \in DOMAIN response.logs :
                  /\ response.logs[i].id \in SelectedIds(query)
                  /\ response.logs[i] = auditLogs[response.logs[i].id]
                  /\ Newer(response.logs[i], query) < first + i - 1
                  /\ first + i - 1 <= NewerOrSame(response.logs[i], query)

\* C15 witness: three entries in pages of two: page 2 holds the one entry left
C15_Witness ==
    /\ IsGetLogs /\ response.status = 200
    /\ response.pagination.total = 3 /\ response.pagination.limit = 2
    /\ response.pagination.page = 2 /\ response.pagination.pages = 2
    /\ Len(response.logs) = 1

\* C16: an audit query of an admin for a page below 1 or beyond the last page
\* does not fail: it is answered 200 with no entry and with the total and pages
\* of the selected entries.
C16_OutOfRangePage ==
    LET query == response.query
        p == PageNumber(query)
        size == PageSize(query)
        total == Cardinality(SelectedIds(query))
    IN  (IsGetLogs /\ response.actorRole = "admin"
            /\ (p < 1 \/ (p - 1) * size >= total)) =>
            /\ response.status = 200
            /\ response.logs = << >>
            /\ response.pagination.total = total
            /\ (response.pagination.pages - 1) * size < total \/ total = 0
            /\ total <= response.pagination.pages * size

\* C17: the entries an audit query returns and counts are exactly those that
\* satisfy every filter supplied: created_at >= from, created_at <= to, and
\* action_type equal to the one asked for.
C17_FiltersConjunctive ==
    (IsGetLogs /\ response.status = 200) =>
        /\ response.pagination.total = Cardinality(SelectedIds(response.query))
        /\ \A i \in DOMAIN response.logs :
              response.logs[i].id \in SelectedIds(response.query)
        /\ (PageNumber(response.query) = 1
              /\ PageSize(response.query) >= response.pagination.total)
             => {response.logs[i].id : i \in DOMAIN response.logs}
                    = SelectedIds(response.query)

\* C17 witness: type and both time bounds were given; an entry of that type
\* lies outside the window and is left out, another lies inside and is returned
C17_Witness ==
    /\ IsGetLogs /\ response.status = 200
    /\ response.query.action_type # None
    /\ response.query.from # None /\ response.query.to # None
    /\ response.logs # << >>
    /\ \E id \in DOMAIN auditLogs :
          /\ auditLogs[id].action_type = response.query.action_type
          /\ id \notin SelectedIds(response.query)

\* C18: after logUserAction wrote an entry with the metadata it was given, a
\* query for page 1 of the entries of that action type returns that entry
\* first, with the metadata passed in and an id above every earlier entry's.
C18_RoundTrip ==
    (IsGetLogs /\ response.status = 200 /\ call.pc = "recorded"
        /\ call.metadata # NoMetadata
        /\ response.query.action_type = call.actionType
        /\ response.query.from = None /\ response.query.to = None
        /\ PageNumber(response.query) = 1) =>
        /\ response.logs # << >>
        /\ response.logs[1].id = call.id
        /\ response.logs[1].metadata = call.metadata
        /\ \A id \in DOMAIN auditLogs : id # call.id => id < response.logs[1].id

C12_AuditFailureKeepsSuccess ==
    (/\ response.method = "POST" /\ response.route = "/users"
     /\ call.pc = "create" /\ call.rejected)
    => /\ response.status = 201
       /\ response.target \in DOMAIN users

\* C24: a CREATE, UPDATE or DELETE answered 401, 403 or 404 leaves the rows of
\* users, every column of them included, and the rows of audit_logs as they were.
C24_DeniedChangesNothing ==
    [][((IsCreate \/ IsUpdate \/ IsDelete) /\ response.status \in {401, 403, 404})'
        => /\ users' = users
           /\ auditLogs' = auditLogs
           /\ nextUserId' = nextUserId /\ nextAuditId' = nextAuditId]_vars

\* C24 witness: an UPDATE carrying an email for another principal's row was
\* answered 403
C24_Witness ==
    /\ IsUpdate /\ response.status = 403 /\ TargetExisted
    /\ response.target # response.actorId
    /\ users[response.target].email # users[response.actorId].email

\* C25: a request is decided with the role stored for its actor when it arrives,
\* whatever role its token carries: req.user is a row of users with its stored
\* role, a CREATE is refused exactly when that stored role is not admin, and a
\* request whose token names a deleted row is answered 401 and changes nothing.
C25_StoredRoleDecides ==
    [][/\ Authenticated' =>
            /\ response'.actorId \in DOMAIN users
            /\ response'.actorRole = users[response'.actorId].role
            /\ IsCreate' =>
                 (response'.status = 403 <=> users[response'.actorId].role # "admin")
       /\ (response.status = 401 /\ response.message = "User not found")' =>
            /\ ~Authenticated'
            /\ users' = users /\ auditLogs' = auditLogs]_vars

\* C25 witness: the holder of a token issued to an admin, since made a basic
\* user, was refused a CREATE
C25_Witness ==
    /\ IsCreate /\ response.status = 403 /\ Authenticated
    /\ cookies[response.actorId] = Sign(response.actorId, "admin")
    /\ response.actorRole = "user"

\* C27: once the first admin has been created, some row of users has role admin
\* in every state.
C27_AdminRemains ==
    nextUserId > 1 => \E u \in DOMAIN users : users[u].role = "admin"

\* C28: every step that changes the role stored for a principal answers a request
\* whose actor was authenticated with role admin; no request of a moderator or
\* user changes a stored role, the actor's own included.
C28_RoleChangesByAdmin ==
    [][(\E u \in DOMAIN users \cap DOMAIN users' : users'[u].role # users[u].role)
        => Authenticated' /\ response'.actorRole = "admin"]_vars

\* C29: a DELETE of an existing target by an admin other than the target, or by
\* a moderator when the target has role user, is answered with success and the
\* target's row is gone, whatever rows of audit_logs name the target.
C29_AllowedDeleteTakesEffect ==
    (/\ IsDelete /\ Authenticated /\ TargetExisted
     /\ \/ response.actorRole = "admin" /\ response.target # response.actorId
        \/ response.actorRole = "moderator" /\ response.targetRole = "user")
    => /\ response.status = 200
       /\ response.target \notin DOMAIN users

\* C21: init-admin creates a row only in an empty table, so at most one
\* principal is ever created through it, and an init-admin request that reads
\* the count while a row exists is answered "Admin already exists" and creates
\* nothing, however the steps of concurrent init-admin requests interleave.
C21_SingleInitAdmin ==
    [][/\ users' # users => DOMAIN users = {}
       /\ \A r \in Requests :
            (call[r].pc = "count" /\ call'[r].pc # "count" /\ DOMAIN users # {})
            => /\ call'[r].pc = "done" /\ call'[r].status = 403
               /\ call'[r].message = "Admin already exists"
               /\ users' = users]_vars

\* C26: every step in which a moderator's DELETE removes a row removes a row
\* whose role is user at that moment, however the steps of a concurrent UPDATE
\* of the same target interleave with the DELETE.
C26_ModeratorDeletesUsersOnly ==
    [][(/\ IsDelete' /\ response'.status = 200
        /\ response'.actorRole = "moderator"
        /\ DOMAIN users' # DOMAIN users)
       => users[response'.target].role = "user"]_vars

\* C30: the total and the pages of an audit query's response count the entries
\* of the store state the returned page was read from: the page holds as many
\* entries as that total leaves for it, and pages is ceil(total / pageSize),
\* however calls of logUserAction interleave with the query.
C30_ConsistentSnapshot ==
    (IsGetLogs /\ response.status = 200) =>
        LET total == response.pagination.total
            size == response.pagination.limit
            before == (response.pagination.page - 1) * size
            left == IF total > before THEN total - before ELSE 0
        IN  /\ Len(response.logs) = IF left < size THEN left ELSE size
            /\ response.pagination.pages = (total + size - 1) \div size

\* the changes array of the rows a step adds to audit_logs
NewChanges ==
    UNION {{row.metadata.changes[i] : i \in DOMAIN row.metadata.changes} :
              row \in {n \in NewAuditRows : n.action_type = "EDIT_USER"}}

\* C22: the audit write of an UPDATE that changed the target's password adds an
\* EDIT_USER row that lists the field password, and no change in any row of
\* audit_logs holds a password, plain or hashed.
C22_PasswordChangeAudited ==
    [][\A r \in Requests :
        (/\ call[r].pc = "log" /\ call'[r].pc = "done"
         /\ call[r].replaced.password # call[r].updatedUser.password)
        => /\ \E change \in NewChanges : change.field = "password"
           /\ \A change \in NewChanges :
                \A v \in {change.oldValue, change.newValue} :
                    /\ v # Str(HashText(call[r].replaced.password))
                    /\ v # Str(HashText(call[r].updatedUser.password))
                    /\ v # Str(call[r].body.password)]_vars

\* the fields of a principal an edit form sets
Editable == {"first_name", "email", "role"}

\* C23: the EDIT_USER row written for an UPDATE lists, of the editable fields,
\* exactly those the update changed, each with the value the row held
\* immediately before that update as oldValue and the value it held immediately
\* after as newValue, however the steps of a concurrent UPDATE interleave.
C23_OwnChangesOnly ==
    [][\A r \in Requests :
        (call[r].pc = "log" /\ call'[r].pc = "done")
        => \A f \in Editable :
             LET listed == {change \in NewChanges : change.field = f}
             IN  /\ listed # {} <=> call[r].replaced[f] # call[r].updatedUser[f]
                 /\ \A change \in listed :
                      /\ change.oldValue = Str(call[r].replaced[f])
                      /\ change.newValue = Str(call[r].updatedUser[f])]_vars

====
